---------------------------- MODULE Spec2Model ----------------------------
(***************************************************************************)
(* A model of second-stack-vec: StackMemory (the backing region), Stack    *)
(* (the scope handle), StackVec (the typed sequence) and the Extend impl.  *)
(*                                                                         *)
(* The region is the byte vector StackMemory.0; the call stack of          *)
(* with_vec invocations is the sequence `frames`.  The closures handed to  *)
(* with_vec are caller code: every step they can take through the public   *)
(* API (push, extend, stack, a nested with_vec, returning, panicking,      *)
(* catching a panic) is an action.                                         *)
(*                                                                         *)
(* History (observation only, never read by an action's decision): the     *)
(* provenance fields T, by, e, k of a byte, the variable op, and the frame *)
(* fields elts, saved, hbuf, nested.                                       *)
(***************************************************************************)
EXTENDS Integers, Sequences, FiniteSets, TLC

\* ------------------------------------------------------------ bounds
MaxLen == 4        \* the region never grows beyond this many bytes
MaxDepth == 2      \* nesting depth of with_vec calls
MaxPanics == 1     \* panics raised in one behaviour
MaxExt == 2        \* longest iterator handed to extend

\* ------------------------------------------------------------ types
\* The element types T the callers instantiate with_vec/StackVec with.
\* "unit" is (), a zero-sized type.
Types == {"u8", "u16", "u32", "unit"}

SizeOf(T) ==
    CASE T = "u8" -> 1 [] T = "u16" -> 2 [] T = "u32" -> 4 [] T = "unit" -> 0

AlignOf(T) ==
    CASE T = "u8" -> 1 [] T = "u16" -> 2 [] T = "u32" -> 4 [] T = "unit" -> 1

\* The const parameter A of StackMemory<A>, Stack<A>, StackVec<T, A>.
Aligns == {2, 4}

\* Values the callers append (as the integer whose little-endian bytes are
\* the value's representation).
SampleVals == {7, 258}

RECURSIVE Pow256(_)
Pow256(n) == IF n = 0 THEN 1 ELSE 256 * Pow256(n - 1)

RECURSIVE Fits(_, _)
\* v is representable in n bytes.
Fits(v, n) == IF n = 0 THEN v = 0 ELSE Fits(v \div 256, n - 1)

Values(T) == {v \in SampleVals : Fits(v, SizeOf(T))}

\* ------------------------------------------------------------ state
VARIABLES
    A,          \* the region's alignment parameter
    buf,        \* StackMemory.0: the bytes in use (its length is len())
    ptr,        \* address of the buffer's first byte, a multiple of A
    root,       \* the Stack obtained from StackMemory::stack
    frames,     \* the with_vec calls in progress, outermost first
    unwinding,  \* a panic is propagating
    status,     \* "running", "rejected" (the build failed), "aborted"
    panics,     \* history: number of panics raised so far
    op          \* history: the call or step that led to this state, and
                \* the items it was given or the elements it destructed;
                \* for a return also the bytes its truncate cut off

vars == <<A, buf, ptr, root, frames, unwinding, status, panics, op>>

\* MaybeUninit::uninit(): a byte with no defined value.
Uninit == [b |-> -1, T |-> "none", by |-> 0, e |-> 0, k |-> 0]

\* Byte k (from 0) of the representation of the value v of type T, written
\* as the e-th element of the sequence of the with_vec call at depth `by`.
Byte(T, v, by, e, k) ==
    [b |-> (v \div Pow256(k)) % 256, T |-> T, by |-> by, e |-> e, k |-> k]

\* ptr.write(val): the size_of::<T>() bytes of val.
Encode(T, v, by, e) == [i \in 1..SizeOf(T) |-> Byte(T, v, by, e, i - 1)]

Undef == -1

RECURSIVE Decode(_)
\* The value a run of bytes is read as; Undef when a byte is uninitialised.
Decode(cells) ==
    IF cells = <<>> THEN 0
    ELSE LET rest == Decode(Tail(cells))
         IN  IF Head(cells).b < 0 \/ rest = Undef THEN Undef
             ELSE Head(cells).b + 256 * rest

Top == frames[Len(frames)]

Running == status = "running" /\ ~unwinding

InBody == Running /\ frames # <<>> /\ Top.pc = "body"

\* ------------------------------------------------------------ AVec
\* AVec::resize(n, MaybeUninit::uninit())
Resize(b, n) ==
    IF n > Len(b) THEN b \o [i \in 1..(n - Len(b)) |-> Uninit]
    ELSE SubSeq(b, 1, n)

\* A truncate that never shortens the vector.
TruncateKeep(b, n) == b

\* AVec::truncate(n): no effect when n is not below the length.
Truncate(b, n) == IF n < Len(b) THEN SubSeq(b, 1, n) ELSE b

\* Where the buffer may be after growing from length m to n: a growth may
\* reallocate, and every allocation of an AVec<_, ConstAlign<A>> is A-aligned.
Placements(m, n) ==
    IF n > m THEN {A, 2 * A} ELSE {ptr}

\* An align_offset that answers align, not 0, for an aligned address.
AlignOffsetNoWrap(addr, align) == align - (addr % align)

\* <*mut u8>::align_offset(align)
AlignOffset(addr, align) == (align - (addr % align)) % align

\* ------------------------------------------------------------ StackMemory
\* with_vec with the alignment assert left out.
ConstAssertSizeOnly(T) == SizeOf(T) > 0

\* with_vec's two const asserts.
ConstAssert(T) == A % AlignOf(T) = 0 /\ SizeOf(T) > 0

\* The types a program instantiates with_vec with: every type that passes
\* the const asserts, and possibly types that do not.
Programs == {Ts \in SUBSET Types : \A T \in Types : ConstAssert(T) => T \in Ts}

\* The const blocks of with_vec::<T> are evaluated when the program is
\* built: one failing assert and there is no program to run.
Built(Ts) == IF \A T \in Ts : ConstAssert(T) THEN "running" ELSE "rejected"

\* StackMemory::new(): AVec::new(0), an empty vector at an aligned address.
Init ==
    /\ A \in Aligns
    /\ buf = <<>>
    /\ ptr = A
    /\ root = [stack |-> FALSE, hbuf |-> <<>>]
    /\ frames = <<>>
    /\ unwinding = FALSE
    /\ panics = 0
    /\ \E Ts \in Programs :
          /\ status = Built(Ts)
          /\ op = [name |-> "new", arg |-> Ts]

\* StackMemory::stack(): a handle on the region, outside every with_vec.
\* The program obtains it once: a Stack is a bare &mut StackMemory with no
\* state of its own, so one obtained later acts on the region exactly as
\* this one does.
StackMemoryStack ==
    /\ Running /\ frames = <<>> /\ ~root.stack
    /\ root' = [stack |-> TRUE, hbuf |-> buf]
    /\ op' = [name |-> "stack", arg |-> <<>>]
    /\ UNCHANGED <<A, buf, ptr, frames, unwinding, status, panics>>

\* ------------------------------------------------------------ StackVec
\* Deref/DerefMut: len = (self.stack.0.len() - self.base) / size_of::<T>()
DerefLen(len, base, T) == (len - base) \div SizeOf(T)

\* Deref/DerefMut on the region b: the slice from_raw_parts(ptr + base, len),
\* element by element, each element the size_of::<T>() bytes it occupies.
SliceOf(b, f) ==
    [i \in 1..DerefLen(Len(b), f.base, f.T) |->
        SubSeq(b, f.base + (i - 1) * SizeOf(f.T) + 1, f.base + i * SizeOf(f.T))]

Deref(f) == SliceOf(buf, f)

\* A slice as values.
Values_of(sl) == [i \in 1..Len(sl) |-> Decode(sl[i])]

View(f) == Values_of(Deref(f))

\* A push that grows the region by one byte instead of size_of::<T>() bytes.
PushStepOneByte(st, T, by, v) ==
    LET old_len == Len(st.buf)
        grown   == Resize(st.buf, old_len + 1)
        val     == Encode(T, v, by, Len(st.elts) + 1)
    IN  [buf  |-> [i \in 1..Len(grown) |->
                     IF i > old_len THEN val[i - old_len] ELSE grown[i]],
         elts |-> Append(st.elts, v)]

\* A push that grows the region and never writes the value.
PushStepNoWrite(st, T, by, v) ==
    [buf  |-> Resize(st.buf, Len(st.buf) + SizeOf(T)),
     elts |-> Append(st.elts, v)]

\* A push whose resize moves the buffer and does not copy the bytes it held.
PushStepNoCopy(st, T, by, v) ==
    LET old_len == Len(st.buf)
        val     == Encode(T, v, by, Len(st.elts) + 1)
    IN  [buf  |-> [i \in 1..(old_len + SizeOf(T)) |->
                     IF i > old_len THEN val[i - old_len] ELSE Uninit],
         elts |-> Append(st.elts, v)]

\* StackVec::push on st = [buf, elts] by the sequence of the with_vec call at
\* depth `by`: resize to old_len + size_of::<T>(), then ptr.write(val) at
\* old_len.
PushStep(st, T, by, v) ==
    LET old_len == Len(st.buf)
        grown   == Resize(st.buf, old_len + SizeOf(T))
        val     == Encode(T, v, by, Len(st.elts) + 1)
    IN  [buf  |-> [i \in 1..Len(grown) |->
                     IF i > old_len THEN val[i - old_len] ELSE grown[i]],
         elts |-> Append(st.elts, v)]

RECURSIVE ForEachPushRev(_, _, _, _)
\* An extend that appends the items last to first.
ForEachPushRev(st, T, by, xs) ==
    IF xs = <<>> THEN st
    ELSE PushStep(ForEachPushRev(st, T, by, Tail(xs)), T, by, Head(xs))

RECURSIVE ForEachPush(_, _, _, _)
\* Extend::extend: iter.into_iter().for_each(|e| self.push(e))
ForEachPush(st, T, by, xs) ==
    IF xs = <<>> THEN st
    ELSE ForEachPush(PushStep(st, T, by, Head(xs)), T, by, Tail(xs))

\* Using the sequence ends the borrow of a Stack derived from it.
Used(f) == [f EXCEPT !.stack = FALSE, !.hbuf = <<>>]

SetTop(f) == [frames EXCEPT ![Len(frames)] = f]

\* StackVec::push
Push ==
    /\ InBody
    /\ Len(buf) + SizeOf(Top.T) <= MaxLen
    /\ \E v \in Values(Top.T) :
         LET st == PushStep([buf |-> buf, elts |-> Top.elts], Top.T,
                            Len(frames), v)
         IN  /\ buf' = st.buf
             /\ ptr' \in Placements(Len(buf), Len(st.buf))
             /\ frames' = SetTop([Used(Top) EXCEPT !.elts = st.elts])
             /\ op' = [name |-> "push", arg |-> <<>>]
    /\ UNCHANGED <<A, root, unwinding, status, panics>>

\* ptr.write to an address that is not aligned for T is undefined behaviour:
\* besides the plain store of Push, a build that checks the precondition of
\* ptr::write stops the process.
PushAbort ==
    /\ InBody
    /\ (ptr + Len(buf)) % AlignOf(Top.T) # 0
    /\ status' = "aborted"
    /\ op' = [name |-> "push", arg |-> <<>>]
    /\ UNCHANGED <<A, buf, ptr, root, frames, unwinding, panics>>

\* The iterators handed to extend on a sequence of T when the region has
\* room for `room` more bytes.
Iters(T, room) ==
    UNION {[1..n -> Values(T)] :
             n \in {m \in 0..MaxExt : m * SizeOf(T) <= room}}

\* Extend::extend
Extend ==
    /\ InBody
    /\ \E xs \in Iters(Top.T, MaxLen - Len(buf)) :
         LET st == ForEachPush([buf |-> buf, elts |-> Top.elts], Top.T,
                               Len(frames), xs)
         IN  /\ buf' = st.buf
             /\ ptr' \in Placements(Len(buf), Len(st.buf))
             /\ frames' = SetTop([Used(Top) EXCEPT !.elts = st.elts])
             /\ op' = [name |-> "extend", arg |-> xs]
    /\ UNCHANGED <<A, root, unwinding, status, panics>>

\* StackVec::stack: Stack(&mut *self.stack)
StackVecStack ==
    /\ InBody
    /\ frames' = SetTop([Top EXCEPT !.stack = TRUE, !.hbuf = buf])
    /\ op' = [name |-> "stack", arg |-> <<>>]
    /\ UNCHANGED <<A, buf, ptr, root, unwinding, status, panics>>

\* ------------------------------------------------------------ Stack
\* A Stack that stays usable after the closure of its sequence returned.
HasStackInTeardown ==
    /\ Running
    /\ IF frames = <<>> THEN root.stack ELSE Top.stack

\* A live Stack is at hand: the root one outside every with_vec, or one
\* derived from the innermost sequence.
HasStack ==
    /\ Running
    /\ IF frames = <<>> THEN root.stack ELSE Top.pc = "body" /\ Top.stack

\* A with_vec that aligns the length down, into the bytes in use, not up.
NewLenRoundDown(end_ptr, old_len, T) == old_len - (end_ptr % AlignOf(T))

\* with_vec: new_len = old_len + end_ptr.align_offset(align_of::<T>())
NewLen(end_ptr, old_len, T) == old_len + AlignOffset(end_ptr, AlignOf(T))

\* with_vec up to the call of f: pad the region, build the StackVec with
\* base = new_len and enter f.
WithVec ==
    /\ HasStack
    /\ Len(frames) < MaxDepth
    /\ \E T \in Types :
         /\ ConstAssert(T)
         /\ LET old_len == Len(buf)
                new_len == NewLen(ptr + Len(buf), old_len, T)
            IN  /\ new_len <= MaxLen
                /\ buf' = Resize(buf, new_len)
                /\ ptr' \in Placements(old_len, new_len)
                /\ frames' =
                     Append(IF frames = <<>> THEN frames
                            ELSE SetTop([Top EXCEPT !.nested = TRUE]),
                            [T |-> T, old_len |-> old_len, base |-> new_len,
                             pc |-> "body", stack |-> FALSE, hbuf |-> <<>>,
                             saved |-> buf, nested |-> FALSE, elts |-> <<>>])
                /\ op' = [name |-> "with_vec", arg |-> <<>>]
    /\ UNCHANGED <<A, root, unwinding, status, panics>>

\* with_vec after f returned: added_len = (len - new_len) / size_of::<T>()
AddedLen(len, new_len, T) == (len - new_len) \div SizeOf(T)

\* A teardown that counts and takes the elements from old_len, padding
\* included, instead of from the padded base.
AddedEltsFromOldLen(b, f) ==
    [i \in 1..AddedLen(Len(b), f.old_len, f.T) |->
        SubSeq(b, f.old_len + (i - 1) * SizeOf(f.T) + 1,
                  f.old_len + i * SizeOf(f.T))]

\* with_vec after f returned: the elements assume_init_drop is called on,
\* in order, each the bytes it is made of.
AddedElts(b, f) ==
    [i \in 1..AddedLen(Len(b), f.base, f.T) |->
        SubSeq(b, f.base + (i - 1) * SizeOf(f.T) + 1, f.base + i * SizeOf(f.T))]

\* with_vec after f returned normally: destruct the added elements.
WithVecDrop ==
    /\ InBody
    /\ frames' = SetTop([Top EXCEPT !.pc = "teardown"])
    /\ op' = [name |-> "drop", arg |-> AddedElts(buf, Top)]
    /\ UNCHANGED <<A, buf, ptr, root, unwinding, status, panics>>

Pop == SubSeq(frames, 1, Len(frames) - 1)

\* A teardown that truncates to the padded base instead of old_len.
TruncateToBase(f) == f.base

\* with_vec: the length the region is truncated to, old_len.
TruncateTo(f) == f.old_len

\* with_vec's last step: truncate(old_len), then return res to the caller.
\* op.cut records the bytes that were behind old_len.
WithVecTruncate ==
    /\ status = "running" /\ frames # <<>> /\ Top.pc = "teardown"
    /\ buf' = Truncate(buf, TruncateTo(Top))
    /\ frames' = Pop
    /\ op' = [name |-> "return", arg |-> <<>>,
              cut |-> SubSeq(buf, TruncateTo(Top) + 1, Len(buf))]
    /\ UNCHANGED <<A, ptr, root, unwinding, status, panics>>

\* ------------------------------------------------------------ panics
\* A with_vec that truncates to old_len when f unwinds (a drop guard).
UnwoundBufTruncated(b, f) == Truncate(b, f.old_len)

\* The region after f unwound through with_vec: nothing after the call of f
\* runs.
UnwoundBuf(b, f) == b

\* The elements destructed when f unwinds through with_vec: none.
UnwoundDrops(b, f) == <<>>

\* f panics: the panic leaves f and with_vec.
FPanics ==
    /\ InBody
    /\ panics < MaxPanics
    /\ buf' = UnwoundBuf(buf, Top)
    /\ frames' = Pop
    /\ unwinding' = TRUE
    /\ panics' = panics + 1
    /\ op' = [name |-> "panic", arg |-> UnwoundDrops(buf, Top)]
    /\ UNCHANGED <<A, ptr, root, status>>

\* The panic is not caught in the enclosing closure and leaves it and its
\* with_vec too.
Unwind ==
    /\ status = "running" /\ unwinding /\ frames # <<>>
    /\ buf' = UnwoundBuf(buf, Top)
    /\ frames' = Pop
    /\ op' = [name |-> "unwind", arg |-> UnwoundDrops(buf, Top)]
    /\ UNCHANGED <<A, ptr, root, unwinding, status, panics>>

\* The caller of the with_vec that unwound catches the panic
\* (std::panic::catch_unwind) and goes on.
CatchUnwind ==
    /\ status = "running" /\ unwinding
    /\ unwinding' = FALSE
    /\ op' = [name |-> "catch", arg |-> <<>>]
    /\ UNCHANGED <<A, buf, ptr, root, frames, status, panics>>

\* ------------------------------------------------------------ behaviours
Next ==
    \/ StackMemoryStack
    \/ WithVec
    \/ Push
    \/ PushAbort
    \/ Extend
    \/ StackVecStack
    \/ WithVecDrop
    \/ WithVecTruncate
    \/ FPanics
    \/ Unwind
    \/ CatchUnwind

Spec == Init /\ [][Next]_vars

\* ------------------------------------------------------------ properties
\* The elements the sequence of frame f, at depth d, appended: what its
\* bytes [base, len) hold when nothing else was written there.
OwnElts(f, d) == [n \in 1..Len(f.elts) |-> Encode(f.T, f.elts[n], d, n)]

\* C1 (restoration).  When a with_vec call returns normally, the region is,
\* in length and in every byte, the region as it was when the call began
\* (frame field saved): the length is old_len and every byte below old_len
\* has the value it had.  This holds at every depth, for every element type
\* and number of appends, whatever the nested calls did.
C1_Restoration ==
    [][op'.name = "return" =>
          /\ Len(buf') = Top.old_len
          /\ Len(Top.saved) = Top.old_len
          /\ buf' = Top.saved]_vars

\* A nested with_vec call has returned to an enclosing u8 sequence that
\* holds one element: the region is that one byte again.
C1_Witness ==
    /\ op.name = "return"
    /\ frames # <<>>
    /\ Top.T = "u8" /\ Top.elts = <<7>>
    /\ Len(buf) = 1 /\ buf[1].b = 7

\* C2 (append correctness).  A sequence from which no nested with_vec was
\* called reads back as exactly the values appended to it, in append order,
\* and its element count is (len - base) / size_of::<T>() of the region as it
\* is now, after every single push.
C2_AppendCorrectness ==
    \A d \in 1..Len(frames) :
        ~frames[d].nested =>
            /\ View(frames[d]) = frames[d].elts
            /\ Len(Deref(frames[d])) = Len(frames[d].elts)
            /\ Len(frames[d].elts) * SizeOf(frames[d].T)
                 = Len(buf) - frames[d].base

\* A fresh u16 sequence holds two different values in append order.
C2_Witness ==
    /\ frames # <<>>
    /\ ~Top.nested
    /\ Top.T = "u16"
    /\ Top.elts = <<258, 7>>
    /\ View(Top) = <<258, 7>>

\* C3 (nesting isolation).  After a with_vec call made on a Stack derived
\* from a sequence S returns, S reads back as it did when that Stack was
\* derived (frame field hbuf is the region at that moment): the same
\* elements, the same element count.  S's base is a field no action assigns
\* after the frame is built.
C3_NestingIsolation ==
    (op.name = "return" /\ frames # <<>>) =>
        /\ Top.stack
        /\ Len(Deref(Top)) = Len(SliceOf(Top.hbuf, Top))
        /\ Deref(Top) = SliceOf(Top.hbuf, Top)

\* C4 (alignment preservation).  The base of every sequence of T is a
\* multiple of align_of::<T>(), every element of T in the region starts at a
\* multiple of align_of::<T>(), and while a sequence is the innermost one and
\* its closure runs, the region length is a multiple of align_of::<T>().
C4_Alignment ==
    /\ \A d \in 1..Len(frames) : frames[d].base % AlignOf(frames[d].T) = 0
    /\ \A i \in 1..Len(buf) :
          (buf[i].T # "none" /\ buf[i].k = 0) =>
              (i - 1) % AlignOf(buf[i].T) = 0
    /\ InBody => Len(buf) % AlignOf(Top.T) = 0

\* C5 (drop on teardown).  The elements a with_vec call destructs when its
\* closure returns normally are exactly the elements appended to its
\* sequence, each once, and nothing else; no other step destructs anything.
C5_DropOnTeardown ==
    /\ op.name = "drop" => op.arg = OwnElts(Top, Len(frames))
    /\ op.name \in {"panic", "unwind", "return", "catch", "push", "stack",
                    "with_vec"} => op.arg = <<>>

\* C6 (an abnormal exit leaks, it does not corrupt).  When a panic out of a
\* nested with_vec call is caught in the enclosing closure, the enclosing
\* sequence is still valid: len - base is a multiple of its size_of::<T>()
\* and its elements are exactly the ones it appended, none made of bytes of
\* the aborted call or of padding; and a teardown destructs only elements of
\* its own sequence.
C6_LeakNotCorruption ==
    /\ (op.name = "catch" /\ frames # <<>>) =>
          /\ (Len(buf) - Top.base) % SizeOf(Top.T) = 0
          /\ Deref(Top) = OwnElts(Top, Len(frames))
    /\ op.name = "drop" =>
          \A i \in 1..Len(op.arg) :
              \E n \in 1..Len(Top.elts) :
                  op.arg[i] = OwnElts(Top, Len(frames))[n]

\* C7 (failure semantics).  When the closure leaves with_vec by a panic,
\* no teardown step runs: nothing is destructed, the region keeps the length
\* and bytes it had (at least the padded base of the call), only the frame
\* of the call is gone, and the panic goes on to the caller.
C7_AbnormalExitSkipsTeardown ==
    [][op'.name \in {"panic", "unwind"} =>
          /\ op'.arg = <<>>
          /\ buf' = buf
          /\ Len(buf') >= Top.base /\ Top.base >= Top.old_len
          /\ frames' = Pop
          /\ unwinding']_vars

\* A closure that appended to its sequence has panicked: its bytes are still
\* part of the region.
C7_Witness ==
    /\ op.name = "panic"
    /\ unwinding
    /\ \E i \in 1..Len(buf) : buf[i].by > Len(frames)

C9_PreconditionRejection ==
    /\ op.name = "new" =>
          (status = "rejected" <=>
              \E T \in op.arg : A % AlignOf(T) # 0 \/ SizeOf(T) = 0)
    /\ status = "rejected" =>
          op.name = "new" /\ buf = <<>> /\ frames = <<>> /\ ~root.stack
    /\ \A d \in 1..Len(frames) :
          A % AlignOf(frames[d].T) = 0 /\ SizeOf(frames[d].T) > 0

\* A program that uses u32 sequences on a region aligned to 2 is rejected.
C9_Witness ==
    /\ status = "rejected"
    /\ A = 2
    /\ "u32" \in op.arg /\ "unit" \notin op.arg
    /\ buf = <<>>

RECURSIVE PushesInOrder(_, _, _, _, _)
\* The state after push(xs[1]), ..., push(xs[n]), in that order.
PushesInOrder(st, T, by, xs, n) ==
    IF n = 0 THEN st
    ELSE PushStep(PushesInOrder(st, T, by, xs, n - 1), T, by, xs[n])

\* C10 (extend equivalence).  extend(xs) leaves the region, and with it the
\* slice of the sequence, as push(xs[1]), ..., push(xs[m]) called in that
\* order leave them; extend of no items changes neither.
C10_ExtendIsPushes ==
    [][op'.name = "extend" =>
          LET d    == Len(frames)
              xs   == op'.arg
              post == PushesInOrder([buf |-> buf, elts |-> Top.elts], Top.T,
                                    d, xs, Len(xs))
          IN  /\ buf' = post.buf
              /\ frames'[d].elts = post.elts
              /\ Len(buf') = Len(buf) + Len(xs) * SizeOf(Top.T)
              /\ SliceOf(buf', frames'[d]) = SliceOf(post.buf, Top)
              /\ xs = <<>> => buf' = buf /\ ptr' = ptr]_vars

\* extend was given two different items.
C10_Witness ==
    /\ op.name = "extend"
    /\ op.arg = <<258, 7>>
    /\ Top.T = "u16"
    /\ View(Top) = <<258, 7>>

\* C11 (typed sequence validity).  In every state reached without a panic,
\* that is by with_vec calls, pushes, extends, stack() calls and normal
\* returns only, the innermost sequence is valid: len - base is an exact
\* multiple of size_of::<T>(), and the bytes [base, len) are exactly the
\* elements this sequence appended, in order, every byte initialised, none
\* of them a padding byte or a byte written by another sequence.
C11_TypedSequenceValidity ==
    (panics = 0 /\ frames # <<>>) =>
        /\ (Len(buf) - Top.base) % SizeOf(Top.T) = 0
        /\ Len(buf) - Top.base = Len(Top.elts) * SizeOf(Top.T)
        /\ Deref(Top) = OwnElts(Top, Len(frames))
        /\ \A i \in (Top.base + 1)..Len(buf) :
              /\ buf[i].b >= 0
              /\ buf[i].T = Top.T
              /\ buf[i].by = Len(frames)

\* A u16 sequence nested in a u8 sequence holds one element behind a padding
\* byte.
C11_Witness ==
    /\ panics = 0
    /\ Len(frames) = 2
    /\ frames[1].elts = <<7>>
    /\ Top.T = "u16" /\ Top.old_len = 1 /\ Top.base = 2
    /\ Top.elts = <<258>>
    /\ Len(buf) = 4
    /\ buf[2] = Uninit

\* C12 (region alignment).  Whenever control is back at a Stack, that is
\* right after StackMemory::stack or StackVec::stack handed one out and right
\* after a with_vec call made on one returned, the region length is a
\* multiple of align_of::<T>() for the element type T of every sequence that
\* is alive on the nesting chain, the enclosing ones as well as the innermost.
C12_RegionAlignment ==
    op.name \in {"stack", "return"} =>
        \A d \in 1..Len(frames) : Len(buf) % AlignOf(frames[d].T) = 0

\* C13 (Stack stability).  Every with_vec call made on a Stack starts with
\* the region, in length and in every byte, as it was when that Stack was
\* handed out (root.hbuf for the Stack of StackMemory::stack, frame field
\* hbuf for one derived from a sequence), whatever happened inside the
\* earlier calls made on the same Stack: frame field saved is the region at
\* the start of the call.
C13_StackStability ==
    \A d \in 1..Len(frames) :
        LET handle == IF d = 1 THEN root ELSE frames[d - 1]
        IN  /\ Len(frames[d].saved) = Len(handle.hbuf)
            /\ frames[d].saved = handle.hbuf

\* C14 (carve padding).  A with_vec::<T> call that starts at region length
\* old_len pads by offset, the smallest number >= 0 such that
\* old_len + offset is a multiple of align_of::<T>(): 0 <= offset <
\* align_of::<T>(), and offset = 0 when old_len is a multiple already.  The
\* base of the new sequence is old_len + offset, and the region has exactly
\* that length when the closure is entered.  The buffer starts at a multiple
\* of A and align_of::<T>() divides A, so the offset the code takes from the
\* address of the buffer's end is the offset of the length, wherever the
\* buffer is.
C14_CarvePadding ==
    [][op'.name = "with_vec" =>
          LET f       == frames'[Len(frames')]
              align   == AlignOf(f.T)
              old_len == Len(buf)
              offset  == f.base - old_len
          IN  /\ f.old_len = old_len
              /\ offset >= 0 /\ offset < align
              /\ (old_len + offset) % align = 0
              /\ \A k \in 0..(offset - 1) : (old_len + k) % align # 0
              /\ old_len % align = 0 => offset = 0
              /\ Len(buf') = old_len + offset
              /\ f.base = Len(buf')
              /\ f.elts = <<>>
              /\ ptr % A = 0 /\ A % align = 0
              /\ (ptr + old_len + offset) % align = 0]_vars

\* A u32 sequence was carved at length 1, behind the element of a u8
\* sequence: three padding bytes, base 4.
C14_Witness ==
    /\ op.name = "with_vec"
    /\ Top.T = "u32"
    /\ Top.old_len = 1 /\ Top.base = 4
    /\ Len(buf) = 4 /\ buf[2] = Uninit /\ buf[4] = Uninit
    /\ Len(Top.saved) = 1 /\ Top.saved[1].by = 1

\* C15 (append frame).  A push that returns, made at region length L on a
\* sequence of T, leaves the region at length exactly L + size_of::<T>(),
\* with the bytes of the value in [L, L + size_of::<T>()) and every byte
\* below L as it was: the bytes below the sequence's base, which belong to
\* enclosing sequences or are padding, and the sequence's earlier elements.
\* The base of the sequence, and every enclosing frame, is unchanged.
C15_AppendFrame ==
    [][(op'.name = "push" /\ status' = "running") =>
          LET d == Len(frames)
              L == Len(buf)
              T == Top.T
              g == frames'[d]
              v == g.elts[Len(g.elts)]
          IN  /\ Len(frames') = d
              /\ Len(buf') = L + SizeOf(T)
              /\ \A i \in 1..L : buf'[i] = buf[i]
              /\ SubSeq(buf', 1, L) = buf
              /\ SubSeq(buf', L + 1, L + SizeOf(T))
                    = Encode(T, v, d, Len(g.elts))
              /\ Decode(SubSeq(buf', L + 1, L + SizeOf(T))) = v
              /\ g.base = Top.base /\ g.old_len = Top.old_len /\ g.T = T
              /\ g.elts = Append(Top.elts, v)
              /\ \A e \in 1..(d - 1) : frames'[e] = frames[e]]_vars

\* A nested u16 sequence, carved behind one element of the enclosing u8
\* sequence and a padding byte, has just been given its first element.
C15_Witness ==
    /\ op.name = "push" /\ status = "running"
    /\ Len(frames) = 2
    /\ frames[1].T = "u8" /\ frames[1].elts = <<7>>
    /\ Top.T = "u16" /\ Top.base = 2 /\ Top.elts = <<258>>
    /\ Len(buf) = 4
    /\ buf[1].b = 7 /\ buf[2] = Uninit /\ buf[3].b = 2 /\ buf[4].b = 1

\* C16 (teardown ordering and count).  When the closure of a with_vec call
\* returns normally, the call destructs (len - new_len) / size_of::<T>()
\* elements, taken one after the other from the padded base new_len, not
\* from old_len, so that no byte of the call's padding [old_len, new_len) is
\* part of a destructed element; the region keeps its length and bytes while
\* they are destructed; the truncation comes after the destruction, cuts the
\* region to old_len, and is the step on which the call returns.
C16_TeardownOrder ==
    [][/\ op'.name = "drop" =>
             LET f    == Top
                 size == SizeOf(f.T)
             IN  /\ Len(op'.arg) = (Len(buf) - f.base) \div size
                 /\ \A i \in 1..Len(op'.arg) :
                       op'.arg[i] = [k \in 1..size |->
                                       buf[f.base + (i - 1) * size + k]]
                 /\ f.old_len <= f.base
                 /\ buf' = buf /\ Len(buf') = Len(buf)
                 /\ Len(frames') = Len(frames)
                 /\ frames'[Len(frames)].pc = "teardown"
       /\ op'.name = "return" =>
             /\ op.name = "drop"
             /\ Top.pc = "teardown"
             /\ Len(buf') = Top.old_len
             /\ buf' = SubSeq(buf, 1, Top.old_len)
             /\ frames' = Pop
       /\ (frames # <<>> /\ Top.pc = "teardown") => op'.name = "return"]_vars

\* The teardown of a u16 sequence carved at length 1 (one padding byte) has
\* destructed its one element, bytes 2 and 3 counted from 0, and the region
\* still has its four bytes.
C16_Witness ==
    /\ op.name = "drop"
    /\ frames # <<>> /\ Top.pc = "teardown"
    /\ Top.T = "u16" /\ Top.old_len = 1 /\ Top.base = 2
    /\ Len(buf) = 4
    /\ op.arg = <<Encode("u16", 258, Len(frames), 1)>>
    /\ op.arg = <<SubSeq(buf, 3, 4)>>

\* C17 (offset bounds).  In every reachable state, the states after a panic
\* left a with_vec call included: every sequence in progress has
\* old_len <= base <= len of the region; along the nesting chain a nested
\* call's old_len, the region length at the time it was made, and so its
\* base, is not below the base of the enclosing sequence; in a teardown
\* old_len <= new_len <= len.  So len - base never underflows, in Deref as
\* in the teardown, and truncate(old_len) never asks for more than the
\* region holds.
C17_OffsetBounds ==
    /\ \A d \in 1..Len(frames) :
          /\ 0 <= frames[d].old_len
          /\ frames[d].old_len <= frames[d].base
          /\ frames[d].base <= Len(buf)
          /\ Len(frames[d].saved) = frames[d].old_len
          /\ DerefLen(Len(buf), frames[d].base, frames[d].T) >= 0
          /\ d > 1 => /\ frames[d - 1].base <= frames[d].old_len
                      /\ frames[d - 1].base <= frames[d].base
    /\ (frames # <<>> /\ Top.pc = "teardown") =>
          /\ Top.old_len <= Top.base /\ Top.base <= Len(buf)
          /\ AddedLen(Len(buf), Top.base, Top.T) >= 0
          /\ Len(Truncate(buf, TruncateTo(Top))) = Top.old_len

\* After a nested call pushed a byte, panicked and was caught, a u16
\* sequence carved behind the leaked byte (old_len 1, base 2) is in its
\* teardown with one element.
C17_Witness ==
    /\ panics = 1 /\ ~unwinding
    /\ Len(frames) = 2
    /\ Top.pc = "teardown"
    /\ Top.T = "u16" /\ Top.old_len = 1 /\ Top.base = 2
    /\ Len(buf) = 4
    /\ buf[1].by = 2 /\ frames[1].elts = <<>> /\ frames[1].base = 0

\* The bytes in the range [base, len) of the sequence of frame f, at depth d,
\* that a with_vec call nested in f left behind: bytes written by a deeper
\* call and padding bytes.  A nested call that returns normally leaves none.
Leaked(b, f, d) ==
    {i \in (f.base + 1)..Len(b) : b[i].by > d \/ b[i].T = "none"}

\* C18 (the leak ends with the enclosing call).  When a with_vec call whose
\* closure caught the panic of a nested call, bytes of which are still in
\* the region, returns normally, it truncates to its own old_len all the
\* same: the region is, in length and bytes, the region from before the
\* enclosing call began, and every leaked byte lies behind its length.
C18_LeakBounded ==
    [][(op'.name = "return" /\ panics > 0
            /\ Leaked(buf, Top, Len(frames)) # {}) =>
          /\ Len(buf') = Top.old_len
          /\ Len(buf') = Len(Top.saved)
          /\ buf' = Top.saved
          /\ \A i \in Leaked(buf, Top, Len(frames)) : i > Len(buf')
          /\ frames' = Pop]_vars

\* The outermost call, a u8 sequence holding 7, has returned normally after
\* it caught the panic of a nested u16 call that had pushed 258 behind one
\* padding byte: its truncate cut off the four bytes and the region is empty
\* as before the call.
C18_Witness ==
    /\ op.name = "return"
    /\ panics = 1 /\ ~unwinding
    /\ frames = <<>> /\ buf = <<>>
    /\ Len(op.cut) = 4
    /\ op.cut[1] = Byte("u8", 7, 1, 1, 0)
    /\ op.cut[2] = Uninit
    /\ SubSeq(op.cut, 3, 4) = Encode("u16", 258, 2, 1)

=============================================================================
